---------------------------- MODULE Spec2Model ----------------------------
(***************************************************************************)
(* Model of the code generation stage of autocxx                           *)
(* (engine/src/conversion/codegen.rs, engine/src/conversion/api.rs).       *)
(*                                                                         *)
(* generate_code is a single-shot function: the initial states hold its    *)
(* inputs (all_apis, include_list, use_stmts_by_mod), the action           *)
(* GenerateCode applies it and stores the CodegenResults.  The syntax tree *)
(* (syn::Item and friends) is opaque to the code, so an item is a record   *)
(* that names its kind and, for the fragments handed over by the parser,   *)
(* the Api it came from.                                                   *)
(***************************************************************************)
EXTENDS Integers, Sequences, FiniteSets, TLC

VARIABLES
    all_apis,              \* Vec<Api> given to generate_code
    include_list,          \* &[String]
    use_stmts_by_mod,      \* HashMap<Namespace, Vec<Item>> (a function on its keys)
    hasher,                \* the orders in which this run's maps and sets iterate
    pc,                    \* "start" | "done" | "error" | "classified"
    items,                 \* CodegenResults.items
    additional_cpp_needs,  \* CodegenResults.additional_cpp_needs
    err,                   \* a ConvertError raised by the conversion phase
    ignorable              \* the value is_ignorable returned for err

vars == <<all_apis, include_list, use_stmts_by_mod, hasher, pc, items,
          additional_cpp_needs, err, ignorable>>

-----------------------------------------------------------------------------
(* Bounds *)

\* longest Api list in the re-export tree specification
MaxApisUse == 2
\* longest Api list in the declaration tree specification
MaxApisDecl == 2
\* longest Api list in the method block specification
MaxApisImpl == 3
\* longest Api list in the sized-type specification
MaxApisCtype == 2
\* longest Api list in the include specification
MaxApisInclude == 2
\* longest Api list in the final ordering specification
MaxApisOrder == 2
\* longest include list
MaxIncludes == 2
\* number of use statements in a non-empty list registered for a namespace
MaxUses == 2

-----------------------------------------------------------------------------
(* Value universes *)

RootNs == <<>>
Segments == {"a", "b", "c"}
Namespaces == {<<>>, <<"a">>, <<"a", "b">>, <<"c">>}
Idents == {"Foo", "Bar"}
Aliases == {"Baz"}
Headers == {"foo.h", "bar.h"}
Strings == {"s1", "s2", "s3", "s4"}

\* TypeName: a namespace and a final identifier
TypeNames == {<<RootNs, "c_int">>, <<RootNs, "c_long">>, <<<<"a">>, "Foo">>}
NoType == <<RootNs, "">>

\* All orders in which a hash map or hash set may hand out the elements of S
Orders(S) == {s \in [1..Cardinality(S) -> S] : \A x \in S : \E k \in DOMAIN s : s[k] = x}

RECURSIVE Flatten(_)
\* Iterator::flatten over a sequence of sequences
Flatten(ss) == IF ss = <<>> THEN <<>> ELSE Head(ss) \o Flatten(Tail(ss))

IsPrefix(p, s) == Len(p) <= Len(s) /\ SubSeq(s, 1, Len(p)) = p

-----------------------------------------------------------------------------
(* Items of the output syntax tree *)

Item(kind, id, name, src, ns, content) ==
    [kind |-> kind, id |-> id, name |-> name, src |-> src, ns |-> ns, content |-> content]

\* A fragment the parser stored in slot `kind` of the src-th Api
Fragment(kind, src) == Item(kind, "", "", src, RootNs, <<>>)
\* The k-th use statement the parser registered for namespace ns
UseFragment(ns, k) == Item("use_stmt", "", "", k, ns, <<>>)

\* api.rs: enum Use
Unused == [kind |-> "Unused", alias |-> ""]
Used == [kind |-> "Used", alias |-> ""]
UsedWithAlias(alias) == [kind |-> "UsedWithAlias", alias |-> alias]

\* additional_cpp_generator::AdditionalNeed::CTypeTypedef(TypeName)
CTypeTypedef(ty) == [kind |-> "CTypeTypedef", ty |-> ty, src |-> 0]
\* The need the conversion phase attached to the src-th Api (a function wrapper)
ApiNeed(src) == [kind |-> "FunctionWrapper", ty |-> NoType, src |-> src]

-----------------------------------------------------------------------------
(* namespace_organizer::NamespaceEntries: the Apis grouped by namespace.   *)
(* A node is the pair (apis, ns); it exists only when some Api lies at or  *)
(* below ns.                                                               *)

\* NamespaceEntries::entries: the Apis whose namespace is exactly ns, in input order
entries(apis, ns) == SelectSeq(apis, LAMBDA api : api.ns = ns)

\* NamespaceEntries::children: the next segments below ns that hold some Api,
\* in the order the map iterates them
children(apis, ns, seg_order) ==
    SelectSeq(seg_order, LAMBDA seg :
        \E i \in DOMAIN apis : IsPrefix(Append(ns, seg), apis[i].ns))

-----------------------------------------------------------------------------
(* codegen.rs: the re-export tree *)

\* use super::cxxbridge; at the head of every namespace mod
UseSuperCxxbridge == Item("use_super", "cxxbridge", "cxxbridge", 0, RootNs, <<>>)
\* pub use cxxbridge :: id as name;
PubUse(id, name) == Item("use", id, name, 0, RootNs, <<>>)
\* pub mod name { content }
Mod(name, content) == Item("mod", "", name, 0, RootNs, content)

\* use_statement with the alias dropped: the identifier is re-exported as itself
use_statement_ignoring_alias(item) ==
    CASE item.use_stmt.kind = "UsedWithAlias" -> <<PubUse(item.id, item.id)>>
      [] item.use_stmt.kind = "Used" -> <<PubUse(item.id, item.id)>>
      [] item.use_stmt.kind = "Unused" -> <<>>

\* the match on item.use_stmt in append_child_use_namespace
use_statement(item) ==
    CASE item.use_stmt.kind = "UsedWithAlias" -> <<PubUse(item.id, item.use_stmt.alias)>>
      [] item.use_stmt.kind = "Used" -> <<PubUse(item.id, item.id)>>
      [] item.use_stmt.kind = "Unused" -> <<>>

RECURSIVE append_child_use_namespace_pruning(_, _, _)
\* append_child_use_namespace leaving out the child mods that hold no re-export
append_child_use_namespace_pruning(apis, ns, h) ==
    LET own == entries(apis, ns)
        kids == children(apis, ns, h.seg_order)
        inner(k) == append_child_use_namespace_pruning(apis, Append(ns, kids[k]), h)
        kept == SelectSeq([k \in 1..Len(kids) |-> k], LAMBDA k : inner(k) # <<>>)
    IN  Flatten([k \in 1..Len(own) |-> use_statement(own[k])])
        \o [j \in 1..Len(kept) |->
              Mod(kids[kept[j]], <<UseSuperCxxbridge>> \o inner(kept[j]))]

RECURSIVE append_child_use_namespace(_, _, _)
\* the items append_child_use_namespace pushes for the node (apis, ns)
append_child_use_namespace(apis, ns, h) ==
    LET own == entries(apis, ns)
        kids == children(apis, ns, h.seg_order)
    IN  Flatten([k \in 1..Len(own) |-> use_statement(own[k])])
        \o [k \in 1..Len(kids) |->
              Mod(kids[k], <<UseSuperCxxbridge>>
                           \o append_child_use_namespace(apis, Append(ns, kids[k]), h))]

generate_final_use_statements(apis, h) == append_child_use_namespace(apis, RootNs, h)

-----------------------------------------------------------------------------
(* codegen.rs: the declaration tree.  The functions take &mut self and     *)
(* remove from self.use_stmts_by_mod, so each returns the items it built   *)
(* together with the map it leaves behind.                                 *)

\* impl ty { entries }
Impl(ty, impl_entries) == Item("impl", ty, "", 0, RootNs, impl_entries)

\* append_uses_for_ns putting the use statements before the items
append_uses_for_ns_first(out, map, ns) ==
    [items |-> (IF ns \in DOMAIN map THEN map[ns] ELSE <<>>) \o out,
     use_stmts_by_mod |-> [n \in DOMAIN map \ {ns} |-> map[n]]]

\* append_uses_for_ns falling back on the root's use statements for a missing key
append_uses_for_ns_root_default(out, map, ns) ==
    [items |-> out \o (IF ns \in DOMAIN map THEN map[ns]
                       ELSE IF RootNs \in DOMAIN map THEN map[RootNs] ELSE <<>>),
     use_stmts_by_mod |-> [n \in DOMAIN map \ {ns} |-> map[n]]]

append_uses_for_ns(out, map, ns) ==
    [items |-> out \o (IF ns \in DOMAIN map THEN map[ns] ELSE <<>>),
     use_stmts_by_mod |-> [n \in DOMAIN map \ {ns} |-> map[n]]]

\* the first loop of append_child_bindgen_namespace: the declaration fragments
bindgen_mod_items(own) == Flatten([k \in 1..Len(own) |-> own[k].bindgen_mod_item])

\* impl_entries_by_type[ty]: the impl entries of the Apis named ty, in encounter order
impl_entries_of(own, ty) ==
    Flatten([k \in 1..Len(own) |-> IF own[k].id = ty THEN own[k].impl_entry ELSE <<>>])

\* impl_blocks without the grouping by type: one impl block per impl entry
impl_blocks_unmerged(own, ident_order) ==
    LET with == SelectSeq(own, LAMBDA api : api.impl_entry # <<>>)
    IN  [k \in 1..Len(with) |-> Impl(with[k].id, with[k].impl_entry)]

\* the second loop of append_child_bindgen_namespace: one impl block per key of
\* impl_entries_by_type, in the order the hash map iterates them
impl_blocks(own, ident_order) ==
    LET tys == SelectSeq(ident_order, LAMBDA ty :
                   \E k \in DOMAIN own : own[k].id = ty /\ own[k].impl_entry # <<>>)
    IN  [k \in 1..Len(tys) |-> Impl(tys[k], impl_entries_of(own, tys[k]))]

RECURSIVE append_child_bindgen_namespace(_, _, _, _), bindgen_children(_, _, _, _, _)
RECURSIVE bindgen_children_unpruned(_, _, _, _, _)
\* bindgen_children without the test for an empty child
bindgen_children_unpruned(apis, ns, kids, st, h) ==
    IF kids = <<>> THEN st
    ELSE LET new_ns == Append(ns, Head(kids))
             inner == append_child_bindgen_namespace(apis, new_ns, st.use_stmts_by_mod, h)
             withuses == append_uses_for_ns(inner.items, inner.use_stmts_by_mod, new_ns)
             next == [items |-> Append(st.items, Mod(Head(kids), withuses.items)),
                      use_stmts_by_mod |-> withuses.use_stmts_by_mod]
         IN  bindgen_children_unpruned(apis, ns, Tail(kids), next, h)

\* the third loop of append_child_bindgen_namespace over the children `kids` still
\* to visit; st holds output_items and self.use_stmts_by_mod so far
bindgen_children(apis, ns, kids, st, h) ==
    IF kids = <<>> THEN st
    ELSE LET new_ns == Append(ns, Head(kids))
             inner == append_child_bindgen_namespace(apis, new_ns, st.use_stmts_by_mod, h)
             withuses == append_uses_for_ns(inner.items, inner.use_stmts_by_mod, new_ns)
             next == IF inner.items # <<>>
                     THEN [items |-> Append(st.items, Mod(Head(kids), withuses.items)),
                           use_stmts_by_mod |-> withuses.use_stmts_by_mod]
                     ELSE [items |-> st.items, use_stmts_by_mod |-> inner.use_stmts_by_mod]
         IN  bindgen_children(apis, ns, Tail(kids), next, h)

append_child_bindgen_namespace(apis, ns, map, h) ==
    LET own == entries(apis, ns)
    IN  bindgen_children(apis, ns, children(apis, ns, h.seg_order),
            [items |-> bindgen_mod_items(own) \o impl_blocks(own, h.ident_order),
             use_stmts_by_mod |-> map], h)

generate_final_bindgen_mods(apis, map, h) ==
    LET r == append_child_bindgen_namespace(apis, RootNs, map, h)
    IN  append_uses_for_ns(r.items, r.use_stmts_by_mod, RootNs).items

-----------------------------------------------------------------------------
(* codegen.rs: the flat part *)

\* known_types::KNOWN_TYPES.is_ctype: the variably-sized C types
CTypes == {<<RootNs, "c_int">>, <<RootNs, "c_long">>}
is_ctype(ty) == ty \in CTypes
\* TypeName::get_final_ident
get_final_ident(ty) == ty[2]

\* type id = autocxx::id;
TypeAlias(id) == Item("type_alias", id, id, 0, RootNs, <<>>)
\* include!(inc);
Include(inc) == Item("include", "", inc, 0, RootNs, <<>>)

\* the set collected at the head of append_ctype_information
ctypes_of(deps) == {ty \in UNION {deps[i] : i \in DOMAIN deps} : is_ctype(ty)}

\* append_ctype_information looping over the dependencies of every Api instead of
\* the set of them
append_ctype_information_per_api(deps, extern_c_mod_items, needs, type_order) ==
    LET ctypes == Flatten([i \in DOMAIN deps |->
                      SelectSeq(type_order, LAMBDA ty : ty \in deps[i] /\ is_ctype(ty))])
    IN  [extern_c_mod_items |->
             extern_c_mod_items
             \o [k \in 1..Len(ctypes) |-> TypeAlias(get_final_ident(ctypes[k]))],
         additional_cpp_needs |->
             needs \o [k \in 1..Len(ctypes) |-> CTypeTypedef(ctypes[k])]]

\* extern_c_mod_items and additional_cpp_needs after the loop over the hash set,
\* which iterates it in the order type_order
append_ctype_information(deps, extern_c_mod_items, needs, type_order) ==
    LET ctypes == SelectSeq(type_order, LAMBDA ty : ty \in ctypes_of(deps))
    IN  [extern_c_mod_items |->
             extern_c_mod_items
             \o [k \in 1..Len(ctypes) |-> TypeAlias(get_final_ident(ctypes[k]))],
         additional_cpp_needs |->
             needs \o [k \in 1..Len(ctypes) |-> CTypeTypedef(ctypes[k])]]

\* build_include_foreign_items including the generated header in any case
build_include_foreign_items_always(includes, has_additional_cpp_needs) ==
    LET chained == includes \o <<"autocxxgen.h">>
    IN  [k \in 1..Len(chained) |-> Include(chained[k])]

build_include_foreign_items(includes, has_additional_cpp_needs) ==
    LET extra_inclusion == IF has_additional_cpp_needs THEN <<"autocxxgen.h">> ELSE <<>>
        chained == includes \o extra_inclusion
    IN  [k \in 1..Len(chained) |-> Include(chained[k])]

\* unsafe extern "C++" { foreign_items }
make_foreign_mod_unsafe(foreign_items) ==
    Item("foreign_mod", "unsafe", "C++", 0, RootNs, foreign_items)

\* the mod the parser handed over as bindgen_mod (a mod with a body, the one the
\* Apis were read from), its content replaced by root
bindgen_mod(root_items) == Mod("bindgen", <<Mod("root", root_items)>>)
\* #[cxx::bridge] pub mod cxxbridge { bridge_items }
cxxbridge_mod(bridge_items) == Item("mod", "cxx::bridge", "cxxbridge", 0, RootNs, bridge_items)

\* final_items with the use statements appended before the cxxbridge mod is pushed
final_items_uses_first(global_items, bindgen_root_items, bridge_items, use_statements) ==
    (IF bindgen_root_items # <<>>
     THEN Append(global_items, bindgen_mod(bindgen_root_items))
     ELSE global_items)
    \o use_statements
    \o <<cxxbridge_mod(bridge_items)>>

\* all_items once the bindgen mod and the cxxbridge mod are pushed and the use
\* statements appended
final_items(global_items, bindgen_root_items, bridge_items, use_statements) ==
    (IF bindgen_root_items # <<>>
     THEN Append(global_items, bindgen_mod(bindgen_root_items))
     ELSE global_items)
    \o <<cxxbridge_mod(bridge_items)>>
    \o use_statements

codegen(apis, includes, map, h) ==
    LET use_statements == generate_final_use_statements(apis, h)
        bindgen_root_items == generate_final_bindgen_mods(apis, map, h)
        bridge_items == Flatten([i \in DOMAIN apis |-> apis[i].bridge_items])
        extern_c_mod_items == Flatten([i \in DOMAIN apis |-> apis[i].extern_c_mod_item])
        all_items == Flatten([i \in DOMAIN apis |-> apis[i].global_items])
        needs == Flatten([i \in DOMAIN apis |-> apis[i].additional_cpp])
        deps == [i \in DOMAIN apis |-> apis[i].deps]
        ct == append_ctype_information(deps, extern_c_mod_items, needs, h.type_order)
        foreign_items == ct.extern_c_mod_items
                         \o build_include_foreign_items(includes, ct.additional_cpp_needs # <<>>)
    IN  [items |-> final_items(all_items, bindgen_root_items,
                               Append(bridge_items, make_foreign_mod_unsafe(foreign_items)),
                               use_statements),
         additional_cpp_needs |-> ct.additional_cpp_needs]

\* CodeGenerator::generate_code
GenerateCode ==
    /\ pc = "start"
    /\ LET r == codegen(all_apis, include_list, use_stmts_by_mod, hasher)
       IN  /\ items' = r.items
           /\ additional_cpp_needs' = r.additional_cpp_needs
    /\ pc' = "done"
    /\ UNCHANGED <<all_apis, include_list, use_stmts_by_mod, hasher, err, ignorable>>

-----------------------------------------------------------------------------
(* api.rs: ConvertError *)

ConvertError(variant, ns, text) == [variant |-> variant, ns |-> ns, text |-> text]
NoError == ConvertError("", RootNs, "")

TypeTexts == {"c_int", "c_long", "Foo"}

\* every value of enum ConvertError, payloads drawn from small sets
ConvertErrors ==
    {ConvertError(v, RootNs, "") :
        v \in {"NoContent", "UnexpectedForeignItem", "UnexpectedOuterItem",
               "UnexpectedItemInMod"}}
    \cup {ConvertError(v, RootNs, s) :
            v \in {"UnsafePODType", "ComplexTypedefTarget"}, s \in Strings}
    \cup {ConvertError(v, ns, s) :
            v \in {"UnexpectedThisType", "VirtualThisType"}, ns \in Namespaces, s \in Strings}
    \cup {ConvertError(v, ns, s) :
            v \in {"UnsupportedBuiltInType", "ConflictingTemplatedArgsWithTypedef"},
            ns \in {RootNs, <<"a">>}, s \in TypeTexts}

\* is_ignorable matching UnexpectedThisType as well
is_ignorable_any_this_type(e) ==
    e.variant \in {"VirtualThisType", "UnexpectedThisType", "UnsupportedBuiltInType"}

is_ignorable(e) == e.variant \in {"VirtualThisType", "UnsupportedBuiltInType"}

\* the conversion phase asks whether the error it met may be skipped
ClassifyError ==
    /\ pc = "error"
    /\ ignorable' = is_ignorable(err)
    /\ pc' = "classified"
    /\ UNCHANGED <<all_apis, include_list, use_stmts_by_mod, hasher, items,
                   additional_cpp_needs, err>>

-----------------------------------------------------------------------------
(* Inputs *)

\* Option<T> and a Vec of at most one fragment: empty, or the fragment of the i-th Api
Slot(kind, i, present) == IF present THEN <<Fragment(kind, i)>> ELSE <<>>

\* the i-th Api of the list, filled as the shape s says
MakeApi(i, s) ==
    [ns |-> s.ns, id |-> s.id, use_stmt |-> s.use_stmt, deps |-> s.deps,
     extern_c_mod_item |-> Slot("foreign_item", i, s.extern),
     bridge_items |-> Slot("bridge_item", i, s.bridge),
     global_items |-> Slot("global_item", i, s.global),
     additional_cpp |-> IF s.cpp THEN <<ApiNeed(i)>> ELSE <<>>,
     bindgen_mod_item |-> Slot("bindgen_mod_item", i, s.decl),
     impl_entry |-> Slot("impl_entry", i, s.impl)]

Uses == {Unused, Used} \cup {UsedWithAlias(a) : a \in Aliases}

\* the use statements registered for ns: none at all, or MaxUses of them
UseLists(ns) == {<<>>, [k \in 1..MaxUses |-> UseFragment(ns, k)]}

\* every map whose keys are a subset of nss
UseMaps(nss) ==
    UNION {{m \in [keys -> UNION {UseLists(ns) : ns \in keys}] :
               \A ns \in keys : m[ns] \in UseLists(ns)} : keys \in SUBSET nss}

\* the map the parser builds when it registers nothing: every namespace, no statement
EmptyUseMaps == {[ns \in Namespaces |-> <<>>]}

IncludeLists == UNION {[1..n -> Headers] : n \in 0..MaxIncludes}

\* The iteration orders of the maps and sets of a run.  std's RandomState draws
\* its keys before the call, so the orders are an input of generate_code:
\* seg_order for NamespaceEntries::children, ident_order for impl_entries_by_type,
\* type_order for the set of ctypes.
SegOrders == {<<"a", "b", "c">>, <<"c", "b", "a">>}
DefaultHasher ==
    [seg_order |-> <<"a", "b", "c">>, ident_order |-> <<"Foo", "Bar">>,
     type_order |-> <<<<RootNs, "c_int">>, <<RootNs, "c_long">>>>]
Hashers(seg_orders, ident_orders, type_orders) ==
    [seg_order : seg_orders, ident_order : ident_orders, type_order : type_orders]

InitWith(shapes, max, maps, includes, hashers) ==
    /\ \E n \in 0..max : \E f \in [1..n -> shapes] :
          all_apis = [i \in 1..n |-> MakeApi(i, f[i])]
    /\ include_list \in includes
    /\ use_stmts_by_mod \in maps
    /\ hasher \in hashers
    /\ pc = "start"
    /\ items = <<>>
    /\ additional_cpp_needs = <<>>
    /\ err = NoError
    /\ ignorable = FALSE

\* Apis that differ in namespace, identifier and disposition only
UseShapes ==
    [ns : Namespaces, id : Idents, use_stmt : Uses, deps : {{}}, extern : {FALSE},
     bridge : {FALSE}, global : {FALSE}, cpp : {FALSE}, decl : {FALSE}, impl : {FALSE}]

InitUse ==
    InitWith(UseShapes, MaxApisUse, EmptyUseMaps, {<<>>},
             Hashers(SegOrders, {DefaultHasher.ident_order}, {DefaultHasher.type_order}))
SpecUse == InitUse /\ [][GenerateCode]_vars

InitErr ==
    /\ all_apis = <<>>
    /\ include_list = <<>>
    /\ use_stmts_by_mod = [ns \in {} |-> <<>>]
    /\ hasher = DefaultHasher
    /\ pc = "error"
    /\ items = <<>>
    /\ additional_cpp_needs = <<>>
    /\ err \in ConvertErrors
    /\ ignorable = FALSE
SpecErr == InitErr /\ [][ClassifyError]_vars

-----------------------------------------------------------------------------
(* The specifications.  Each of SpecUse, SpecImpl, SpecDecl, SpecCtype,     *)
(* SpecInclude, SpecOrder (defined with the properties they serve) starts   *)
(* generate_code on the inputs that exercise one part of codegen; SpecErr   *)
(* classifies a ConvertError.  Spec is all of them together.                *)

Next == GenerateCode \/ ClassifyError

-----------------------------------------------------------------------------
(* Reading the output *)

\* the place of the #[cxx::bridge] mod among the top-level items
BridgePositions == {k \in DOMAIN items : items[k].kind = "mod" /\ items[k].id = "cxx::bridge"}
BridgePos == CHOOSE k \in BridgePositions : TRUE
\* the top-level items that follow the bridge mod
AfterBridge == SubSeq(items, BridgePos + 1, Len(items))

ModsNamed(tree, name) ==
    SelectSeq(tree, LAMBDA it : it.kind = "mod" /\ it.id = "" /\ it.name = name)

RECURSIVE HasModule(_, _)
\* whether the tree holds a mod at the path
HasModule(tree, path) ==
    \/ path = <<>>
    \/ /\ ModsNamed(tree, Head(path)) # <<>>
       /\ HasModule(ModsNamed(tree, Head(path))[1].content, Tail(path))

RECURSIVE ContentAt(_, _)
\* the items of the mod at the path, none when there is no such mod
ContentAt(tree, path) ==
    IF path = <<>> THEN tree
    ELSE IF ModsNamed(tree, Head(path)) = <<>> THEN <<>>
    ELSE ContentAt(ModsNamed(tree, Head(path))[1].content, Tail(path))

RECURSIVE CountKind(_, _)
\* how many items of the kind the tree holds, at any depth
CountKind(tree, kind) ==
    IF tree = <<>> THEN 0
    ELSE (IF Head(tree).kind = kind THEN 1 ELSE 0)
         + (IF Head(tree).kind = "mod" THEN CountKind(Head(tree).content, kind) ELSE 0)
         + CountKind(Tail(tree), kind)

OfKind(tree, kind) == SelectSeq(tree, LAMBDA it : it.kind = kind)

ApisAt(ns) == SelectSeq(all_apis, LAMBDA api : api.ns = ns)
ApisBelow(ns) == SelectSeq(all_apis, LAMBDA api : IsPrefix(ns, api.ns))

-----------------------------------------------------------------------------
(* C5, C6: the re-export tree *)

\* the re-exports a namespace must hold: one per record that is not Unused, in
\* input order, each a pair <<identifier re-exported, name it is bound to>>
ReExportsWanted(ns) ==
    LET used == SelectSeq(ApisAt(ns), LAMBDA api : api.use_stmt.kind # "Unused")
    IN  [k \in 1..Len(used) |->
            <<used[k].id,
              IF used[k].use_stmt.kind = "UsedWithAlias"
              THEN used[k].use_stmt.alias ELSE used[k].id>>]

ReExportsFound(ns) ==
    LET found == OfKind(ContentAt(AfterBridge, ns), "use")
    IN  [k \in 1..Len(found) |-> <<found[k].id, found[k].name>>]

\* C5: in the re-export tree the module at each namespace's path (the top level for
\* the empty namespace) holds exactly one re-export per record of that namespace
\* that is Used (bound to its identifier) or UsedWithAlias(a) (bound to a), none
\* for an Unused record, in the order of the records in the input; no re-export
\* stands anywhere else.
C5_ReExports ==
    pc = "done" =>
        /\ \A ns \in Namespaces : ReExportsFound(ns) = ReExportsWanted(ns)
        /\ CountKind(AfterBridge, "use")
             = Cardinality({i \in DOMAIN all_apis : all_apis[i].use_stmt.kind # "Unused"})

\* two records of one nested namespace, the first aliased, the second used as is
C5_Witness ==
    /\ pc = "done"
    /\ Len(all_apis) = 2
    /\ all_apis[1].ns = <<"a", "b">> /\ all_apis[2].ns = <<"a", "b">>
    /\ all_apis[1].use_stmt.kind = "UsedWithAlias"
    /\ all_apis[2].use_stmt.kind = "Used"
    /\ all_apis[1].id = all_apis[2].id

\* whether every record at or below ns is Unused
AllUnusedBelow(ns) ==
    \A i \in DOMAIN all_apis :
        IsPrefix(ns, all_apis[i].ns) => all_apis[i].use_stmt.kind = "Unused"

\* C6 as stated: a namespace whose own and descendant records are all Unused gets
\* no module in the re-export tree.
C6_Original ==
    pc = "done" =>
        \A ns \in Namespaces \ {RootNs} : AllUnusedBelow(ns) => ~HasModule(AfterBridge, ns)

\* C6 amended: a non-root namespace gets a module in the re-export tree exactly
\* when some record lies in it or below it, whatever the dispositions; the module
\* opens with `use super::cxxbridge;`, so a namespace of Unused records yields a
\* module holding that line (and its child modules) and no re-export.
C6_ModulePerNamespace ==
    pc = "done" =>
        \A ns \in Namespaces \ {RootNs} :
            /\ HasModule(AfterBridge, ns) <=> ApisBelow(ns) # <<>>
            /\ HasModule(AfterBridge, ns) =>
                  /\ Head(ContentAt(AfterBridge, ns)) = UseSuperCxxbridge
                  /\ Len(ModsNamed(ContentAt(AfterBridge, SubSeq(ns, 1, Len(ns) - 1)),
                                   ns[Len(ns)])) = 1

\* a namespace that holds records, all of them Unused, and its module is there
C6_Witness ==
    /\ pc = "done"
    /\ ApisAt(<<"a">>) # <<>>
    /\ AllUnusedBelow(<<"a">>)
    /\ HasModule(AfterBridge, <<"a">>)
    /\ ContentAt(AfterBridge, <<"a">>) = <<UseSuperCxxbridge>>

-----------------------------------------------------------------------------
(* C7: method blocks of the declaration tree *)

\* Apis that differ in namespace, identifier and impl entry only
ImplShapes ==
    [ns : {RootNs, <<"a">>, <<"a", "b">>}, id : Idents, use_stmt : {Unused}, deps : {{}},
     extern : {FALSE}, bridge : {FALSE}, global : {FALSE}, cpp : {FALSE}, decl : {FALSE},
     impl : BOOLEAN]

InitImpl ==
    InitWith(ImplShapes, MaxApisImpl, EmptyUseMaps, {<<>>},
             Hashers({DefaultHasher.seg_order}, Orders(Idents), {DefaultHasher.type_order}))
SpecImpl == InitImpl /\ [][GenerateCode]_vars

\* the top-level items that precede the bridge mod
BeforeBridge == SubSeq(items, 1, BridgePos - 1)
\* the content of `pub mod root` inside the root container
DeclRoot == ContentAt(BeforeBridge, <<"bindgen", "root">>)

\* the impl entries of the records of namespace ns named id, in input order
ImplEntriesWanted(ns, id) ==
    LET with == SelectSeq(all_apis, LAMBDA api :
                    api.ns = ns /\ api.id = id /\ api.impl_entry # <<>>)
    IN  [k \in 1..Len(with) |-> with[k].impl_entry[1]]

ImplBlocksFound(ns, id) ==
    SelectSeq(ContentAt(DeclRoot, ns), LAMBDA it : it.kind = "impl" /\ it.id = id)

\* C7: for every namespace and identifier, the impl entries of the records of that
\* namespace with that identifier stand in exactly one impl block for the identifier,
\* in the module of the namespace, in input order; a pair without impl entries has
\* no block; the tree holds no other impl block, so no entry is lost, duplicated
\* or merged with the entries of another identifier or namespace.
C7_ImplBlocks ==
    pc = "done" =>
        /\ \A ns \in Namespaces : \A id \in Idents :
              IF ImplEntriesWanted(ns, id) = <<>>
              THEN ImplBlocksFound(ns, id) = <<>>
              ELSE /\ Len(ImplBlocksFound(ns, id)) = 1
                   /\ ImplBlocksFound(ns, id)[1].content = ImplEntriesWanted(ns, id)
        /\ CountKind(items, "impl")
             = Cardinality({p \in Namespaces \X Idents : ImplEntriesWanted(p[1], p[2]) # <<>>})

\* three records of one namespace with impl entries, named Foo, Bar, Foo
C7_Witness ==
    /\ pc = "done"
    /\ Len(all_apis) = 3
    /\ \A i \in 1..3 : all_apis[i].ns = <<"a">> /\ all_apis[i].impl_entry # <<>>
    /\ all_apis[1].id = "Foo" /\ all_apis[2].id = "Bar" /\ all_apis[3].id = "Foo"
    /\ Len(ImplBlocksFound(<<"a">>, "Foo")[1].content) = 2

-----------------------------------------------------------------------------
(* C8, C9, C10: modules and use statements of the declaration tree *)

DeclNamespaces == {RootNs, <<"a">>, <<"a", "b">>}

\* Apis that differ in namespace, declaration fragment and impl entry only
DeclShapes ==
    [ns : DeclNamespaces, id : {"Foo"}, use_stmt : {Unused}, deps : {{}},
     extern : {FALSE}, bridge : {FALSE}, global : {FALSE}, cpp : {FALSE}, decl : BOOLEAN,
     impl : BOOLEAN]

InitDecl == InitWith(DeclShapes, MaxApisDecl, UseMaps(DeclNamespaces), {<<>>}, {DefaultHasher})
SpecDecl == InitDecl /\ [][GenerateCode]_vars

\* whether the root container stands among the items before the bridge mod
DeclTreeEmitted == ModsNamed(BeforeBridge, "bindgen") # <<>>

\* the use statements registered for ns, none when the map has no entry
Registered(ns) == IF ns \in DOMAIN use_stmts_by_mod THEN use_stmts_by_mod[ns] ELSE <<>>

\* whether the record brings a declaration fragment or an impl entry
HasDeclContent(api) == api.bindgen_mod_item # <<>> \/ api.impl_entry # <<>>
ContentBelow(ns) ==
    \E i \in DOMAIN all_apis : HasDeclContent(all_apis[i]) /\ IsPrefix(ns, all_apis[i].ns)

RECURSIVE CountItem(_, _)
\* how often the item stands in the tree, at any depth
CountItem(tree, it) ==
    IF tree = <<>> THEN 0
    ELSE (IF Head(tree) = it THEN 1 ELSE 0)
         + (IF Head(tree).kind = "mod" THEN CountItem(Head(tree).content, it) ELSE 0)
         + CountItem(Tail(tree), it)

\* C8: every module of the declaration tree, the root included, ends with the use
\* statements registered for its namespace, in registered order, after all its
\* declaration fragments, impl blocks and child modules (none of which is a use
\* statement); no registered use statement stands twice in the output.
C8_UsesLast ==
    pc = "done" =>
        /\ \A ns \in DeclNamespaces : HasModule(DeclRoot, ns) =>
              LET c == ContentAt(DeclRoot, ns)
                  n == Len(c) - Len(Registered(ns))
              IN  /\ n >= 0
                  /\ SubSeq(c, n + 1, Len(c)) = Registered(ns)
                  /\ \A k \in 1..n : c[k].kind # "use_stmt"
        /\ \A ns \in DOMAIN use_stmts_by_mod : \A k \in DOMAIN use_stmts_by_mod[ns] :
              CountItem(items, use_stmts_by_mod[ns][k]) <= 1

\* the root holds a declaration, an impl block and the module a; both namespaces
\* have use statements registered
C8_Witness ==
    /\ pc = "done"
    /\ Len(all_apis) = 2
    /\ all_apis[1].ns = RootNs /\ all_apis[1].bindgen_mod_item # <<>>
    /\ all_apis[1].impl_entry # <<>>
    /\ all_apis[2].ns = <<"a">> /\ all_apis[2].bindgen_mod_item # <<>>
    /\ Registered(RootNs) # <<>> /\ Registered(<<"a">>) # <<>>
    /\ Len(DeclRoot) = 3 + Len(Registered(RootNs))
    /\ DeclRoot[3].kind = "mod"

\* whether some record brings a declaration fragment into a namespace without a
\* map entry
MissingUses(ns) ==
    /\ ns \notin DOMAIN use_stmts_by_mod
    /\ \E i \in DOMAIN all_apis : all_apis[i].ns = ns /\ all_apis[i].bindgen_mod_item # <<>>

C10_Pruning ==
    pc = "done" =>
        /\ \A ns \in DeclNamespaces \ {RootNs} :
              /\ HasModule(DeclRoot, ns) <=> ContentBelow(ns)
              /\ ~ContentBelow(ns) =>
                    \A k \in DOMAIN Registered(ns) : CountItem(items, Registered(ns)[k]) = 0
        /\ DeclTreeEmitted <=> (ContentBelow(RootNs) \/ Registered(RootNs) # <<>>)
        /\ DeclTreeEmitted => Len(BeforeBridge) = 1 /\ Len(BeforeBridge[1].content) = 1
        /\ ~DeclTreeEmitted => BeforeBridge = <<>>

\* namespace a holds a record without content and has use statements registered;
\* the tree is emitted for the root's sake and has no module a
C10_Witness ==
    /\ pc = "done"
    /\ ApisAt(<<"a">>) # <<>>
    /\ ~ContentBelow(<<"a">>)
    /\ Registered(<<"a">>) # <<>>
    /\ DeclTreeEmitted
    /\ ~HasModule(DeclRoot, <<"a">>)

\* the root container is emitted for the root's use statements alone
C10_WitnessRootUses ==
    /\ pc = "done"
    /\ ~ContentBelow(RootNs)
    /\ DeclTreeEmitted

-----------------------------------------------------------------------------
(* C3, C4: the foreign items of the bridge *)

\* the items of #[cxx::bridge] pub mod cxxbridge
BridgeItems == items[BridgePos].content
\* the items of the unsafe extern "C++" block of the bridge
ForeignItems == OfKind(BridgeItems, "foreign_mod")[1].content

\* Apis that differ in namespace, dependencies and additional C++ need only
CtypeShapes ==
    [ns : {RootNs, <<"a">>}, id : {"Foo"}, use_stmt : {Unused}, deps : SUBSET TypeNames,
     extern : {FALSE}, bridge : {FALSE}, global : {FALSE}, cpp : BOOLEAN, decl : {FALSE},
     impl : {FALSE}]

InitCtype ==
    InitWith(CtypeShapes, MaxApisCtype, EmptyUseMaps, {<<>>},
             Hashers({DefaultHasher.seg_order}, {DefaultHasher.ident_order}, Orders(CTypes)))
SpecCtype == InitCtype /\ [][GenerateCode]_vars

\* the records that depend on the type
Dependents(ty) == {i \in DOMAIN all_apis : ty \in all_apis[i].deps}

AliasesFor(ty) ==
    SelectSeq(ForeignItems, LAMBDA it : it.kind = "type_alias" /\ it.id = get_final_ident(ty))
TypedefNeedsFor(ty) ==
    SelectSeq(additional_cpp_needs, LAMBDA need : need.kind = "CTypeTypedef" /\ need.ty = ty)

\* C3: a type some record depends on and that is a ctype has exactly one type alias
\* among the foreign items of the bridge and exactly one CTypeTypedef need, however
\* many records depend on it; any other type has neither; the aliases and needs
\* of the output are those of the ctypes depended on and nothing more.
C3_OneAliasPerCtype ==
    pc = "done" =>
        /\ \A ty \in TypeNames :
              LET n == IF Dependents(ty) # {} /\ is_ctype(ty) THEN 1 ELSE 0
              IN  Len(AliasesFor(ty)) = n /\ Len(TypedefNeedsFor(ty)) = n
        /\ Len(OfKind(ForeignItems, "type_alias"))
             = Cardinality({ty \in TypeNames : Dependents(ty) # {} /\ is_ctype(ty)})
        /\ Len(SelectSeq(additional_cpp_needs, LAMBDA need : need.kind = "CTypeTypedef"))
             = Cardinality({ty \in TypeNames : Dependents(ty) # {} /\ is_ctype(ty)})

\* a record in the root and one in namespace a depend on the same ctype, one of
\* them on a type that is no ctype as well
C3_Witness ==
    /\ pc = "done"
    /\ Len(all_apis) = 2
    /\ all_apis[1].ns = RootNs /\ all_apis[2].ns = <<"a">>
    /\ Dependents(<<RootNs, "c_int">>) = {1, 2}
    /\ Dependents(<<<<"a">>, "Foo">>) # {}
    /\ Len(AliasesFor(<<RootNs, "c_int">>)) = 1

\* Apis that differ in dependencies, foreign item and additional C++ need only
IncludeShapes ==
    [ns : {RootNs}, id : {"Foo"}, use_stmt : {Unused},
     deps : {{}, {<<RootNs, "c_int">>}, {<<<<"a">>, "Foo">>}},
     extern : BOOLEAN, bridge : {FALSE}, global : {FALSE}, cpp : BOOLEAN, decl : {FALSE},
     impl : {FALSE}]

InitInclude ==
    InitWith(IncludeShapes, MaxApisInclude, EmptyUseMaps, IncludeLists, {DefaultHasher})
SpecInclude == InitInclude /\ [][GenerateCode]_vars

\* the headers of the include directives among the foreign items, in order
IncludesFound ==
    LET inc == OfKind(ForeignItems, "include")
    IN  [k \in 1..Len(inc) |-> inc[k].name]

\* C4: the include directives of the foreign block are those of include_list, in
\* its order, followed by one for autocxxgen.h exactly when the returned list of
\* additional C++ needs is non-empty, be the needs brought by records or added
\* for ctypes; the directives are the last items of the block.
C4_Includes ==
    pc = "done" =>
        /\ IncludesFound
             = include_list \o (IF additional_cpp_needs # <<>> THEN <<"autocxxgen.h">> ELSE <<>>)
        /\ additional_cpp_needs # <<>> <=>
              \E i \in DOMAIN all_apis :
                  \/ all_apis[i].additional_cpp # <<>>
                  \/ \E ty \in all_apis[i].deps : is_ctype(ty)
        /\ \A j, k \in DOMAIN ForeignItems :
              ForeignItems[j].kind = "include" /\ ForeignItems[k].kind # "include" => k < j

\* include list ["foo.h"], a foreign item, and a need that stems from a ctype alone
C4_Witness ==
    /\ pc = "done"
    /\ include_list = <<"foo.h">>
    /\ \A i \in DOMAIN all_apis : all_apis[i].additional_cpp = <<>>
    /\ \E i \in DOMAIN all_apis : all_apis[i].extern_c_mod_item # <<>>
    /\ IncludesFound = <<"foo.h", "autocxxgen.h">>
    /\ Len(ForeignItems) = 4

-----------------------------------------------------------------------------
(* C1: the order of the final items *)

\* Apis that differ in namespace, disposition, declaration, global and bridge items
OrderShapes ==
    [ns : {RootNs, <<"a">>}, id : {"Foo"}, use_stmt : {Unused, Used}, deps : {{}},
     extern : {FALSE}, bridge : BOOLEAN, global : BOOLEAN, cpp : {FALSE}, decl : BOOLEAN,
     impl : {FALSE}]

\* no use statement registered, or some for the root
OrderUseMaps == {[ns \in Namespaces |-> IF ns = RootNs THEN l ELSE <<>>] : l \in UseLists(RootNs)}

InitOrder == InitWith(OrderShapes, MaxApisOrder, OrderUseMaps, {<<>>}, {DefaultHasher})
SpecOrder == InitOrder /\ [][GenerateCode]_vars

IsRootContainer(it) == it.kind = "mod" /\ it.id = "" /\ it.name = "bindgen"
IsReExport(it) == it.kind = "use" \/ (it.kind = "mod" /\ it.id = "" /\ it.name \in Segments)

\* C1: the output holds the bridge mod exactly once; the root container with mod
\* root, when emitted, stands before it (directly, after the global items); every
\* re-export and re-export module stands after it, and nothing else does.
C1_FinalOrder ==
    pc = "done" =>
        /\ Cardinality(BridgePositions) = 1
        /\ \A k \in DOMAIN items :
              /\ IsRootContainer(items[k]) => k = BridgePos - 1
              /\ IsReExport(items[k]) <=> k > BridgePos
        /\ (\E i \in DOMAIN all_apis : all_apis[i].bindgen_mod_item # <<>>) => DeclTreeEmitted
        /\ Len(AfterBridge) >= Cardinality({i \in DOMAIN all_apis :
                                              all_apis[i].ns = RootNs
                                              /\ all_apis[i].use_stmt.kind = "Used"})

\* global item, root container, bridge mod, a top-level re-export and a re-export
\* module, in this order
C1_Witness ==
    /\ pc = "done"
    /\ Len(items) = 5
    /\ items[1].kind = "global_item"
    /\ IsRootContainer(items[2])
    /\ BridgePos = 3
    /\ items[4].kind = "use"
    /\ items[5].kind = "mod"

\* the empty record list: the bridge mod alone
C1_WitnessEmpty == pc = "done" /\ all_apis = <<>> /\ Len(items) = 1 /\ BridgePos = 1

-----------------------------------------------------------------------------
(* C2: ConvertError::is_ignorable *)

Variants ==
    {"NoContent", "UnsafePODType", "UnexpectedForeignItem", "UnexpectedOuterItem",
     "UnexpectedItemInMod", "ComplexTypedefTarget", "UnexpectedThisType",
     "UnsupportedBuiltInType", "VirtualThisType", "ConflictingTemplatedArgsWithTypedef"}

\* C2: is_ignorable returns true exactly for the variants VirtualThisType and
\* UnsupportedBuiltInType, whatever the payload.
C2_Ignorable ==
    pc = "classified" =>
        /\ err.variant \in Variants
        /\ ignorable <=> err.variant \in {"VirtualThisType", "UnsupportedBuiltInType"}

\* an UnsupportedBuiltInType error was classified as ignorable
C2_Witness ==
    /\ pc = "classified"
    /\ err.variant = "UnsupportedBuiltInType"
    /\ err.ns = <<"a">>
    /\ ignorable

\* an UnexpectedThisType error, with the payload of a VirtualThisType, was not
C2_WitnessFatal ==
    /\ pc = "classified"
    /\ err.variant = "UnexpectedThisType"
    /\ ~ignorable

-----------------------------------------------------------------------------

Init ==
    \/ InitUse
    \/ InitImpl
    \/ InitDecl
    \/ InitCtype
    \/ InitInclude
    \/ InitOrder
    \/ InitErr
Spec == Init /\ [][Next]_vars

=============================================================================
